---------------------------- MODULE Spec2Model ----------------------------
(***************************************************************************)
(* Model of thoth-graph-estimator's score engine, src/app.py:              *)
(* _fill_graph_score (the seed loop, lines 125-137, and the drain loop,    *)
(* lines 139-164) run by the `pile` command (lines 209-223) over the       *)
(* Package table (lines 60-68) and the graph database.                     *)
(*                                                                         *)
(* subgraph_size is a Float column and an attr float; the values of the    *)
(* model are products of small integers, which a double holds exactly, so  *)
(* the model computes in Int, with a scaled-down float range (MaxFloat).   *)
(***************************************************************************)
EXTENDS Integers, Sequences, FiniteSets, TLC

\* ------------------------------------------------------------------ bounds
\* Largest number of dependency edges of the graph database.
MaxEdges == 3
\* Largest number of Package rows whose subgraph_size is already set before
\* the first run (left there by an earlier, unmodelled run).
MaxPreset == 1
\* The subgraph_size such a row holds.
PresetSize == 7
\* Number of `pile` invocations.
MaxRuns == 2
\* Largest number of times one SubGraphEntity is popped in the model.
MaxPops == 4
\* Largest finite float of the model; a larger product is inf, as a product
\* beyond sys.float_info.max is in Python.
MaxFloat == 100000000

\* ------------------------------------------------------------ value spaces
\* Python's None in a nullable column.
None == -1

\* Python's float("inf").
Infinity == MaxFloat + 1

\* x * y on floats, for x, y >= 1.
FloatMul(x, y) == IF x > MaxFloat \div y THEN Infinity ELSE x * y

\* The package names the graph database and the Package table know.
Names == {"a", "b", "c"}

\* The number of versions the graph database knows of each package; the
\* values are distinct primes, so that a product tells which factors it has.
KnownVersionCount(name) == CASE name = "a" -> 3 [] name = "b" -> 2 [] OTHER -> 5

\* version_count is nullable: nothing in _fill_graph_score fills it in.
VersionCounts(name) == {None, KnownVersionCount(name)}

\* One Package row (lines 60-68); exists = FALSE stands for "no row":
\* session.query(Package).filter(...).first() returns None.
NoEntry == [exists |-> FALSE, version_count |-> None, subgraph_size |-> None]

Entries(name) ==
    {NoEntry} \cup
    [exists : {TRUE}, version_count : VersionCounts(name), subgraph_size : {None, PresetSize}]

\* SubGraphEntity (lines 75-83); pops counts the popleft()s of the object and
\* folds the executions of line 153 on it.
SubGraphEntity(name, dependencies) ==
    [subgraph_name |-> name, subgraphs_seen |-> {}, to_visit |-> dependencies,
     subgraph_size |-> 1, pops |-> 0, folds |-> 0]

VARIABLES
    packages,     \* graph.get_python_package_version_names_all(distinct=True)
    depends_on,   \* graph.get_depends_on_package_names(package_name)
    store,        \* the Package table: name -> row
    pc,           \* "idle", "seed", "drain", "done", "raised"
    remaining,    \* names the seed loop has still to enumerate
    subgraphs,    \* the deque of SubGraphEntity
    run,          \* number of the pile invocation
    start,        \* the Package table when the current run began
    seeded,       \* the table and the deque when the seed loop finished
    prev_done,    \* the previous run ended with an empty deque
    log,          \* records _LOGGER emitted in this run
    written,      \* names whose row this run has assigned a subgraph_size
    pass,         \* the current pass over the deque: pops left, rows unset at its start
    last          \* what the last step did

vars == <<packages, depends_on, store, pc, remaining, subgraphs, run, start,
          seeded, prev_done, log, written, pass, last>>

\* ---------------------------------------------------------------- helpers
Edges(dep) == {e \in Names \X Names : e[2] \in dep[e[1]]}

\* The orders in which Python may iterate a set.
IterOrders(S) ==
    {o \in [1 .. Cardinality(S) -> S] : \A i, j \in 1 .. Cardinality(S) : i # j => o[i] # o[j]}

\* The for loop of lines 142-154 from position i of the iteration order ord,
\* over table st: how it ends, with the entity's subgraph_size and
\* subgraphs_seen at that point, and the number of names it folded in.
RECURSIVE Visit(_, _, _, _, _)
Visit(st, ord, i, size, seen) ==
    IF i > Len(ord)
    THEN [outcome |-> "else", subgraph_size |-> size, subgraphs_seen |-> seen, at |-> "-",
          folds |-> i - 1]
    ELSE LET entry == st[ord[i]] IN
         IF ~entry.exists
         THEN [outcome |-> "missing", subgraph_size |-> size, subgraphs_seen |-> seen,
               at |-> ord[i], folds |-> i - 1]
         ELSE IF entry.subgraph_size = None
         THEN [outcome |-> "unset", subgraph_size |-> size, subgraphs_seen |-> seen,
               at |-> ord[i], folds |-> i - 1]
         ELSE IF entry.version_count = None
         THEN [outcome |-> "TypeError", subgraph_size |-> size, subgraphs_seen |-> seen,
               at |-> ord[i], folds |-> i - 1]
         ELSE Visit(st, ord, i + 1,
                    FloatMul(size, FloatMul(entry.subgraph_size, entry.version_count)),
                    seen \cup {ord[i]})

\* The names whose row exists in table st with no subgraph_size.
UnsetRows(st) == {n \in Names : st[n].exists /\ st[n].subgraph_size = None}

\* A pass over the deque pops every entity the deque q holds when it begins.
NewPass(st, q) == [left |-> Len(q), unset |-> UnsetRows(st)]

\* ------------------------------------------------------------------- Init
Init ==
    /\ packages \in {{}, {"a"}, {"a", "b"}, {"a", "b", "c"}}
    /\ depends_on \in [Names -> SUBSET Names]
    /\ \A n \in Names : n \notin depends_on[n]
    /\ \A n \in Names \ packages : depends_on[n] = {}
    /\ Cardinality(Edges(depends_on)) <= MaxEdges
    /\ store \in [Names -> UNION {Entries(n) : n \in Names}]
    /\ \A n \in Names : store[n] \in Entries(n)
    /\ Cardinality({n \in Names : store[n].subgraph_size # None}) <= MaxPreset
    /\ pc = "idle"
    /\ remaining = {}
    /\ subgraphs = <<>>
    /\ run = 0
    /\ start = store
    /\ seeded = [store |-> store, subgraphs |-> <<>>]
    /\ prev_done = FALSE
    /\ log = {}
    /\ written = {}
    /\ pass = NewPass(store, <<>>)
    /\ last = [op |-> "init", name |-> "-", outcome |-> "-", pops |-> 0, folds |-> 0,
               at |-> "-"]

\* ---------------------------------------------------------------- actions
\* pile (lines 209-223): one invocation of _fill_graph_score begins.
Pile ==
    /\ pc \in {"idle", "done", "raised"}
    /\ run < MaxRuns
    /\ run' = run + 1
    /\ prev_done' = (pc = "done")
    /\ start' = store
    /\ remaining' = packages
    /\ subgraphs' = <<>>
    /\ log' = {}
    /\ written' = {}
    /\ pass' = NewPass(store, <<>>)
    /\ pc' = IF packages = {} THEN "done" ELSE "seed"
    /\ seeded' = [store |-> store, subgraphs |-> <<>>]
    /\ last' = [op |-> "pile", name |-> "-", outcome |-> "-", pops |-> 0, folds |-> 0, at |-> "-"]
    /\ UNCHANGED <<packages, depends_on, store>>

\* What one iteration of the seed loop (lines 125-137) appends to the deque.
SeedAppends(package_name) ==
    LET dependencies == depends_on[package_name]
        entity == SubGraphEntity(package_name, dependencies)
    IN  IF dependencies = {} THEN <<entity>> ELSE <<entity, entity>>

\* The rows one iteration of the seed loop assigns (lines 128-135).
SeedWrites(package_name) ==
    IF depends_on[package_name] = {} /\ store[package_name].exists
    THEN {package_name} ELSE {}

\* Mutation of SeedStore: line 132 replaced by the creation of a row, the
\* package's known version_count copied into it.
SeedStoreCreatesRow(package_name) ==
    IF depends_on[package_name] # {} THEN store
    ELSE IF store[package_name].exists
    THEN [store EXCEPT ![package_name].subgraph_size = store[package_name].version_count]
    ELSE [store EXCEPT ![package_name] =
              [exists |-> TRUE, version_count |-> KnownVersionCount(package_name),
               subgraph_size |-> KnownVersionCount(package_name)]]

\* What one iteration of the seed loop writes to the table.
SeedStore(package_name) ==
    IF SeedWrites(package_name) # {}
    THEN [store EXCEPT ![package_name].subgraph_size = store[package_name].version_count]
    ELSE store

\* One iteration of the seed loop, for the next name the graph enumerates.
Seed(package_name) ==
    /\ pc = "seed"
    /\ package_name \in remaining
    /\ remaining' = remaining \ {package_name}
    /\ subgraphs' = subgraphs \o SeedAppends(package_name)
    /\ store' = SeedStore(package_name)
    /\ pc' = IF remaining' # {} THEN "seed"
             ELSE IF subgraphs' = <<>> THEN "done" ELSE "drain"
    /\ seeded' = IF remaining' = {} THEN [store |-> store', subgraphs |-> subgraphs']
                 ELSE seeded
    /\ written' = written \cup SeedWrites(package_name)
    /\ pass' = NewPass(store', subgraphs')
    /\ last' = [op |-> "seed", name |-> package_name,
                outcome |-> IF SeedWrites(package_name) # {} THEN "write" ELSE "-",
                pops |-> 0, folds |-> 0, at |-> "-"]
    /\ UNCHANGED <<packages, depends_on, run, start, prev_done, log>>

\* Mutation of AfterPass: line 164 left out, to_visit keeps the names that
\* were folded in.
AfterPassKeepsToVisit(subgraph, r) ==
    [subgraph EXCEPT !.subgraph_size = r.subgraph_size,
                     !.subgraphs_seen = r.subgraphs_seen,
                     !.pops = subgraph.pops + 1,
                     !.folds = subgraph.folds + r.folds]

\* The entity as line 164 leaves it after a pass that ended as r.
AfterPass(subgraph, r) ==
    [subgraph EXCEPT !.subgraph_size = r.subgraph_size,
                     !.subgraphs_seen = r.subgraphs_seen,
                     !.to_visit = subgraph.to_visit \ r.subgraphs_seen,
                     !.pops = subgraph.pops + 1,
                     !.folds = subgraph.folds + r.folds]

\* Mutation of PopQueue: line 150 as appendleft, the deque used as a stack.
PopQueueAppendLeft(q, subgraph, r) ==
    IF r.outcome = "unset" THEN <<AfterPass(subgraph, r)>> \o Tail(q) ELSE Tail(q)

\* Mutation of PopQueue: line 150 left out, a deferred entity is lost.
PopQueueDropsDeferred(q, subgraph, r) == Tail(q)

\* Mutation of PopQueue: a limit on passes, line 150 appends only an entity
\* that has not been put back before.
PopQueueDefersOnce(q, subgraph, r) ==
    IF r.outcome = "unset" /\ subgraph.pops = 0
    THEN Append(Tail(q), AfterPass(subgraph, r)) ELSE Tail(q)

\* Mutation of PopQueue: line 150 puts the entity behind the new head
\* instead of at the end of the deque.
PopQueueInsertsAfterHead(q, subgraph, r) ==
    IF r.outcome # "unset" THEN Tail(q)
    ELSE IF Tail(q) = <<>> THEN <<AfterPass(subgraph, r)>>
    ELSE <<Head(Tail(q)), AfterPass(subgraph, r)>> \o Tail(Tail(q))

\* The deque after the pass: the entity goes to the back only at line 150.
PopQueue(q, subgraph, r) ==
    IF r.outcome = "unset" THEN Append(Tail(q), AfterPass(subgraph, r)) ELSE Tail(q)

\* Mutation of PopWrites: lines 156-162 outside the for's else clause, so
\* that they also run after a break.
PopWritesAfterBreak(st, subgraph, r) ==
    IF r.outcome # "TypeError" /\ st[subgraph.subgraph_name].exists
    THEN {subgraph.subgraph_name} ELSE {}

\* Mutation of PopWrites: the entity's partial product is also written when
\* line 150 puts the entity back.
PopWritesOnDeferral(st, subgraph, r) ==
    IF r.outcome \in {"else", "unset"} /\ st[subgraph.subgraph_name].exists
    THEN {subgraph.subgraph_name} ELSE {}

\* The rows the pass assigns: lines 156-162 write the subject's row.
PopWrites(st, subgraph, r) ==
    IF r.outcome = "else" /\ st[subgraph.subgraph_name].exists
    THEN {subgraph.subgraph_name} ELSE {}

\* The table after the pass.
PopStore(st, subgraph, r) ==
    IF PopWrites(st, subgraph, r) # {}
    THEN [st EXCEPT ![subgraph.subgraph_name].subgraph_size = r.subgraph_size]
    ELSE st

\* What the pass logs: the warning of line 145 or the error of line 158.
PopLog(st, subgraph, r) ==
    IF r.outcome = "missing" THEN {[level |-> "warning", name |-> r.at]}
    ELSE IF r.outcome = "else" /\ ~st[subgraph.subgraph_name].exists
    THEN {[level |-> "error", name |-> subgraph.subgraph_name]}
    ELSE {}

\* One iteration of the drain loop (lines 139-164), the for loop iterating
\* to_visit in order ord.
Pop(ord) ==
    /\ pc = "drain"
    /\ subgraphs # <<>>
    /\ Head(subgraphs).pops < MaxPops
    /\ LET subgraph == Head(subgraphs)
           r == Visit(store, ord, 1, subgraph.subgraph_size, subgraph.subgraphs_seen)
       IN  /\ ord \in IterOrders(subgraph.to_visit)
           /\ subgraphs' = PopQueue(subgraphs, subgraph, r)
           /\ store' = PopStore(store, subgraph, r)
           /\ log' = log \cup PopLog(store, subgraph, r)
           /\ written' = written \cup PopWrites(store, subgraph, r)
           /\ pass' = IF pass.left <= 1 THEN NewPass(store', subgraphs')
                      ELSE [pass EXCEPT !.left = pass.left - 1]
           /\ pc' = IF r.outcome = "TypeError" THEN "raised"
                    ELSE IF subgraphs' = <<>> THEN "done" ELSE "drain"
           /\ last' = [op |-> "pop", name |-> subgraph.subgraph_name,
                       outcome |-> IF r.outcome = "else" /\ ~store[subgraph.subgraph_name].exists
                                   THEN "no_subject" ELSE r.outcome,
                       pops |-> subgraph.pops + 1,
                       folds |-> subgraph.folds + r.folds,
                       at |-> r.at]
    /\ UNCHANGED <<packages, depends_on, remaining, run, start, seeded, prev_done>>

Next ==
    \/ Pile
    \/ \E package_name \in Names : Seed(package_name)
    \/ \E ord \in UNION {IterOrders(S) : S \in SUBSET Names} : Pop(ord)

Spec == Init /\ [][Next]_vars

\* ------------------------------------------------------ claim vocabulary
\* A package with no direct dependency.
IsLeaf(p) == p \in packages /\ depends_on[p] = {}

\* The row of n has a known version_count.
KnownCount(st, n) == st[n].exists /\ st[n].version_count # None

\* The run of _fill_graph_score has ended with an empty deque.
RunDone == run >= 1 /\ pc = "done"

\* The product of the numbers f[d], d in S.
RECURSIVE Product(_, _)
Product(f, S) ==
    IF S = {} THEN 1
    ELSE LET d == CHOOSE x \in S : TRUE IN FloatMul(f[d], Product(f, S \ {d}))

\* What the recurrence of the glossary gives p from the rows of table st.
DepTerm(st) ==
    [d \in Names |->
        IF st[d].subgraph_size = None \/ st[d].version_count = None THEN 1
        ELSE FloatMul(st[d].subgraph_size, st[d].version_count)]
Recurrence(st, p) == Product(DepTerm(st), depends_on[p])

\* Number of entities of the deque q whose subject is n.
EntitiesOf(q, n) == Cardinality({i \in 1 .. Len(q) : q[i].subgraph_name = n})

\* ------------------------------------------------------------------- C1
\* C1: after a run that ends with an empty deque, every package with no
\* direct dependency and a row with a known version_count has
\* subgraph_size = version_count, whatever the enumeration order.
C1_LeafSizeIsVersionCount ==
    RunDone =>
        \A p \in packages :
            (IsLeaf(p) /\ KnownCount(store, p))
                => store[p].subgraph_size = store[p].version_count

\* ------------------------------------------------------------------- C2
\* The scenario of the specification: A has no dependency and 3 versions,
\* B depends on A and has 2 versions, nothing is scored yet.
ScenarioAB ==
    /\ packages = {"a", "b"}
    /\ depends_on["a"] = {} /\ depends_on["b"] = {"a"}
    /\ start["a"] = [exists |-> TRUE, version_count |-> 3, subgraph_size |-> None]
    /\ start["b"] = [exists |-> TRUE, version_count |-> 2, subgraph_size |-> None]

\* C2: after a run that ends with an empty deque, every package with
\* dependencies whose score the run persisted holds the product, over its
\* direct dependencies d, of subgraph_size(d) * version_count(d) as the table
\* holds them at the end; in the scenario A ends with 3 and B with 9.
C2_SizeIsProductOfDependencies ==
    RunDone =>
        /\ \A p \in packages :
               (depends_on[p] # {} /\ p \in written)
                   => store[p].subgraph_size = Recurrence(store, p)
        /\ ScenarioAB =>
               store["a"].subgraph_size = 3 /\ store["b"].subgraph_size = 9

\* ------------------------------------------------------------------- C3
\* C3: within one run, a subgraph_size that is set is never changed by a
\* later step of that run.
C3_WriteOnceWithinRun ==
    [][run' = run =>
          \A n \in Names :
              store[n].subgraph_size # None
                  => store'[n].subgraph_size = store[n].subgraph_size]_vars

\* ------------------------------------------------------------------- C4
\* C4: when two runs in a row both end with an empty deque, every
\* subgraph_size that was set after the first is the same after the second.
C4_IdempotentAcrossRuns ==
    (RunDone /\ run = 2 /\ prev_done) =>
        \A n \in Names :
            start[n].subgraph_size # None
                => store[n].subgraph_size = start[n].subgraph_size

\* ------------------------------------------------------------------- C5
\* p is enumerated and one of its direct dependencies has no row.
HasMissingDependency(p) ==
    p \in packages /\ \E x \in depends_on[p] : ~store[x].exists

\* C5: a package with a direct dependency that has no row keeps, in every
\* state of the run, the subgraph_size it had when the run began; and the
\* pass that looks that dependency up drops the entity: the deque loses its
\* head and gains nothing, the table is untouched, nothing is raised.
C5_MissingDependencyLeavesScoreUnwritten ==
    /\ [](\A p \in Names :
             HasMissingDependency(p)
                 => p \notin written /\ store[p].subgraph_size = start[p].subgraph_size)
    /\ [][(run' = run /\ last'.op = "pop" /\ last'.outcome = "missing")
             => /\ HasMissingDependency(last'.name)
                /\ subgraphs' = Tail(subgraphs)
                /\ store' = store
                /\ pc' # "raised"]_vars

\* A pass over an entity with two dependencies left has folded one of them
\* in and then met the one without a row, in a run that began with the
\* subject already scored.
C5_Witness ==
    /\ last.op = "pop" /\ last.outcome = "missing"
    /\ HasMissingDependency(last.name)
    /\ Cardinality(depends_on[last.name]) = 2
    /\ \E d \in depends_on[last.name] : store[d].exists /\ store[d].subgraph_size # None
    /\ store[last.name].subgraph_size # None

\* ------------------------------------------------------------------- C6
\* The enumerated packages form one chain P1 <- P2 <- ... <- Pk, every one
\* with a row that has a known version_count and had no subgraph_size when
\* the run began.
IsChain ==
    /\ packages # {}
    /\ \E o \in IterOrders(packages) :
           /\ depends_on[o[1]] = {}
           /\ \A i \in 2 .. Len(o) : depends_on[o[i]] = {o[i - 1]}
    /\ \A p \in packages : KnownCount(start, p) /\ start[p].subgraph_size = None

\* C6: on such a chain of k packages no entity is popped more than k times,
\* nothing is raised, the drain loop can always take its next pass until the
\* deque is empty, and when it is empty every package of the chain is scored.
C6_ChainResolvesWithinKPasses ==
    (run >= 1 /\ IsChain) =>
        /\ pc # "raised"
        /\ \A i \in 1 .. Len(subgraphs) : subgraphs[i].pops < Cardinality(packages)
        /\ last.op = "pop" => last.pops <= Cardinality(packages)
        /\ pc = "drain" => subgraphs # <<>> /\ Head(subgraphs).pops < MaxPops
        /\ pc = "done" => \A p \in packages : store[p].subgraph_size # None

\* The chain of three packages has drained, its last pass being a second
\* pass over the same entity.
C6_Witness ==
    /\ run = 1 /\ IsChain /\ Cardinality(packages) = 3
    /\ pc = "done" /\ last.op = "pop" /\ last.pops = 2

\* ------------------------------------------------------------------- C7
\* c and d depend on each other and on nothing else; both have a row, and
\* neither was scored when the run began.
IsCycle(c, d) ==
    /\ c # d /\ c \in packages /\ d \in packages
    /\ depends_on[c] = {d} /\ depends_on[d] = {c}
    /\ start[c].exists /\ start[d].exists
    /\ start[c].subgraph_size = None /\ start[d].subgraph_size = None

\* C7: with such a cycle neither row is ever scored, no pass over an entity
\* of c or d raises (and nothing raises at all when c and d are the whole
\* graph), the deque never empties, and every pass over an entity of c or d
\* puts that entity back at the end of the deque.
C7_CycleNeverFinalizes ==
    /\ [](\A c, d \in Names :
             (run >= 1 /\ IsCycle(c, d)) =>
                 /\ store[c].subgraph_size = None /\ store[d].subgraph_size = None
                 /\ pc # "done"
                 /\ pc = "raised" => last.name \notin {c, d}
                 /\ packages = {c, d} => pc # "raised")
    /\ [][\A c, d \in Names :
             (IsCycle(c, d) /\ run' = run /\ last'.op = "pop" /\ last'.name = c)
                 => /\ last'.outcome = "unset"
                    /\ Len(subgraphs') = Len(subgraphs)
                    /\ subgraphs'[Len(subgraphs')].subgraph_name = c
                    /\ subgraphs'[Len(subgraphs')].to_visit = {d}]_vars

\* An entity of a cycle has been popped and put back for the third time.
C7_Witness ==
    \E c, d \in Names :
        /\ IsCycle(c, d) /\ pc = "drain"
        /\ last.op = "pop" /\ last.name = c /\ last.pops = 3
        /\ subgraphs[Len(subgraphs)].subgraph_name = c

\* ------------------------------------------------------------------- C8
\* C8: no step of the seed loop or of the drain loop raises, whatever the
\* graph and the table hold.
C8_NoExceptionLeavesEngine == pc # "raised"

\* ------------------------------------------------------------------- C9
\* C9: when the seed loop has finished, the deque holds at most one entity
\* per package name, and exactly one for every package with dependencies.
C9_OneWorkItemPerPackage ==
    (run >= 1 /\ pc # "seed") =>
        \A n \in Names :
            /\ EntitiesOf(seeded.subgraphs, n) <= 1
            /\ (n \in packages /\ depends_on[n] # {})
                   => EntitiesOf(seeded.subgraphs, n) = 1

\* ------------------------------------------------------------------ C10
\* Largest number of passes of the reference drain.
MaxReferencePasses == 2 * Cardinality(Names) * MaxPops

\* The drain loop run from table st and deque q with one fixed iteration
\* order for every to_visit set: the table it ends with, and whether it
\* ended with an empty deque within fuel passes.
RECURSIVE ReferenceDrain(_, _, _)
ReferenceDrain(st, q, fuel) ==
    IF q = <<>> THEN [emptied |-> TRUE, store |-> st]
    ELSE IF fuel = 0 THEN [emptied |-> FALSE, store |-> st]
    ELSE LET subgraph == Head(q)
             ord == CHOOSE o \in IterOrders(subgraph.to_visit) : TRUE
             r == Visit(st, ord, 1, subgraph.subgraph_size, subgraph.subgraphs_seen)
         IN  IF r.outcome = "TypeError" THEN [emptied |-> FALSE, store |-> st]
             ELSE ReferenceDrain(PopStore(st, subgraph, r), PopQueue(q, subgraph, r),
                                 fuel - 1)

\* C10: with the graph, the table at the start and the enumeration order
\* fixed (hence the table and the deque the seed loop leaves), every run
\* that empties the deque ends with the same subgraph_size in every row,
\* whatever order each pass iterates to_visit in: any such run ends as the
\* run that iterates in the reference order does, when that one empties
\* the deque too.
C10_IterationOrderIndependent ==
    RunDone =>
        LET ref == ReferenceDrain(seeded.store, seeded.subgraphs, MaxReferencePasses)
        IN  ref.emptied => store = ref.store

\* ------------------------------------------------------------------ C11
\* The dependency graph has no cycle: the names can be put in an order in
\* which every name comes after all its direct dependencies.
Acyclic ==
    \E o \in IterOrders(Names) :
        \A i, j \in 1 .. Len(o) : o[j] \in depends_on[o[i]] => j < i

\* Every enumerated package has a row with a known version_count whose
\* subgraph_size was unset when the run began.
AllKnownAndUnscored ==
    \A p \in packages : KnownCount(start, p) /\ start[p].subgraph_size = None

\* The seed loop (lines 125-137) run from table st and deque q over the
\* names of todo, in that order: the table and the deque it leaves.
RECURSIVE ReferenceSeed(_, _, _)
ReferenceSeed(st, q, todo) ==
    IF todo = <<>> THEN [store |-> st, subgraphs |-> q]
    ELSE LET package_name == Head(todo)
             written_st ==
                 IF depends_on[package_name] = {} /\ st[package_name].exists
                 THEN [st EXCEPT ![package_name].subgraph_size =
                                     st[package_name].version_count]
                 ELSE st
         IN  ReferenceSeed(written_st, q \o SeedAppends(package_name), Tail(todo))

\* One whole run from the table the current run began with, the graph
\* enumerating the packages in one fixed order.
ReferenceRun ==
    LET s == ReferenceSeed(start, <<>>, CHOOSE o \in IterOrders(packages) : TRUE)
    IN  ReferenceDrain(s.store, s.subgraphs, MaxReferencePasses)

\* C11: on an acyclic graph whose packages all have a row with a known
\* version_count and no subgraph_size yet, the table a run ends with when the
\* deque empties is the same for every enumeration order: every such run
\* ends as the run in the reference enumeration order does.
C11_EnumerationOrderIndependent ==
    (RunDone /\ Acyclic /\ AllKnownAndUnscored) =>
        (ReferenceRun.emptied => store = ReferenceRun.store)

\* ------------------------------------------------------------------ C12
\* The graph is acyclic, every dependency is itself an enumerated package,
\* and every package has a row with a known version_count.
CompleteAcyclic ==
    /\ Acyclic
    /\ \A p \in packages : depends_on[p] \subseteq packages /\ KnownCount(store, p)

\* On such data the run never raises, the drain loop can always take its
\* next pass and pops no entity more often than there are packages (so the
\* deque does empty), and when it is empty every package is scored.
DrainsToAllScored ==
    (run >= 1 /\ CompleteAcyclic) =>
        /\ pc # "raised"
        /\ \A i \in 1 .. Len(subgraphs) : subgraphs[i].pops < Cardinality(packages)
        /\ pc = "drain" => subgraphs # <<>> /\ Head(subgraphs).pops < MaxPops
        /\ pc = "done" => \A p \in packages : store[p].subgraph_size # None

\* This step is the last pop of a pass over the deque.
PassEnds == run' = run /\ last'.op = "pop" /\ pass.left = 1

\* C12: on complete acyclic data the deque empties with every package
\* scored, and every full pass over a non-empty deque strictly decreases
\* the number of rows with no subgraph_size.
C12_TerminatesOnCompleteAcyclicData ==
    /\ []DrainsToAllScored
    /\ [][(CompleteAcyclic /\ PassEnds)
             => Cardinality(UnsetRows(store')) < Cardinality(pass.unset)]_vars

\* ------------------------------------------------------------------ C13
\* Every entity of the deque has folded each name of subgraphs_seen in
\* once, and no other; to_visit holds the rest of its subject's dependencies.
FoldedOnce(subgraph) ==
    /\ subgraph.folds = Cardinality(subgraph.subgraphs_seen)
    /\ subgraph.subgraphs_seen \cap subgraph.to_visit = {}
    /\ subgraph.subgraphs_seen \cup subgraph.to_visit = depends_on[subgraph.subgraph_name]

\* C13: a pass that meets a row with no subgraph_size puts the same entity
\* once at the back of the deque, its subgraph_size multiplied by the terms
\* of the names folded in during the pass and those names taken out of
\* to_visit; so every dependency is folded into an entity at most once, and
\* exactly once by the pass that writes the subject's score.
C13_DeferralKeepsProgress ==
    /\ [](\A i \in 1 .. Len(subgraphs) : FoldedOnce(subgraphs[i]))
    /\ [][(run' = run /\ last'.op = "pop" /\ last'.outcome = "unset")
             => LET before == Head(subgraphs)
                    after == subgraphs'[Len(subgraphs')]
                    folded == after.subgraphs_seen \ before.subgraphs_seen
                IN  /\ Len(subgraphs') = Len(subgraphs)
                    /\ \A i \in 1 .. Len(subgraphs) - 1 : subgraphs'[i] = subgraphs[i + 1]
                    /\ after.subgraph_name = before.subgraph_name
                    /\ after.pops = before.pops + 1
                    /\ after.to_visit = before.to_visit \ folded
                    /\ after.subgraph_size =
                           FloatMul(before.subgraph_size, Product(DepTerm(store), folded))]_vars
    /\ [][(run' = run /\ last'.op = "pop")
             => /\ last'.folds <= Cardinality(depends_on[last'.name])
                /\ last'.outcome = "else"
                       => last'.folds = Cardinality(depends_on[last'.name])]_vars

\* An entity has been put back after a pass that folded one of its two
\* dependencies in and met the other unscored.
C13_Witness ==
    /\ pc = "drain" /\ last.op = "pop" /\ last.outcome = "unset"
    /\ LET after == subgraphs[Len(subgraphs)]
       IN  /\ after.subgraph_name = last.name
           /\ Cardinality(after.subgraphs_seen) = 1 /\ Cardinality(after.to_visit) = 1
           /\ after.subgraph_size > 1

\* ------------------------------------------------------------------ C14
\* Package a has a row whose subgraph_size was unset when the run began, a
\* direct dependency without a row, and the seeded deque has lost every
\* entity of a: the warning of line 145 has dropped them.
Abandoned(a) ==
    /\ pc \in {"drain", "done"}
    /\ HasMissingDependency(a)
    /\ start[a].exists /\ start[a].subgraph_size = None
    /\ EntitiesOf(subgraphs, a) = 0

\* The packages with a direct dependency on a.
Dependents(a) == {p \in packages : a \in depends_on[p]}

\* Every pass over an entity of a dependent of an abandoned a leaves the
\* table alone and does not complete the for loop; the pass that looks a up
\* puts the entity back at the end of the deque, and no warning names a.
BlockedPops ==
    [][\A a \in Names :
           (Abandoned(a) /\ run' = run /\ last'.op = "pop" /\ last'.name \in Dependents(a))
               => /\ store' = store
                  /\ last'.outcome \in {"unset", "missing", "TypeError"}
                  /\ last'.outcome = "missing" => last'.at # a
                  /\ last'.at = a
                         => /\ last'.outcome = "unset"
                            /\ Len(subgraphs') = Len(subgraphs)
                            /\ subgraphs'[Len(subgraphs')].subgraph_name = last'.name]_vars

\* C14 as stated: once the entities of a have been dropped for a missing
\* dependency of a, the entities of the packages that depend on a are put
\* back by every pass that looks a up, are never written and never dropped
\* because of a, and so the deque does not become empty.
C14_UnresolvableBlocksDependents ==
    /\ BlockedPops
    /\ [](\A a \in Names : (Abandoned(a) /\ Dependents(a) # {}) => pc # "done")

\* C14 amended: the deque does not become empty when some package that
\* depends on a has a row for every one of its own direct dependencies; a
\* dependent with a dependency without a row is dropped by line 146 in the
\* pass that looks that dependency up first.
C14_UnresolvableBlocksCompleteDependents ==
    /\ BlockedPops
    /\ [](\A a \in Names :
             (Abandoned(a) /\ \E p \in Dependents(a) : \A d \in depends_on[p] : store[d].exists)
                 => /\ pc # "done"
                    /\ \A p \in Dependents(a) :
                           (\A d \in depends_on[p] : store[d].exists)
                               => EntitiesOf(subgraphs, p) = 2)

\* A dependent of an abandoned a has been put back a second time by a pass
\* that looked a up.
C14_Witness ==
    \E a \in Names :
        /\ Abandoned(a)
        /\ last.op = "pop" /\ last.name \in Dependents(a)
        /\ last.outcome = "unset" /\ last.at = a /\ last.pops >= 2
        /\ \A d \in depends_on[last.name] : store[d].exists

\* ------------------------------------------------------------------ C15
\* The pops counts never decrease along the deque and differ by at most
\* one: the head is an entity popped least often.
ServedInTurn ==
    \A i, j \in 1 .. Len(subgraphs) :
        i <= j => /\ subgraphs[i].pops <= subgraphs[j].pops
                  /\ subgraphs[j].pops <= subgraphs[i].pops + 1

\* C15: a pass takes the head of the deque and moves every other entity
\* one place forward, unchanged; the entity it puts back goes behind all of
\* them. So an entity put back is popped again only after every entity that
\* was in the deque with it has been popped, and an entity at place i is
\* popped after i - 1 other passes.
C15_FifoServiceOrder ==
    /\ []ServedInTurn
    /\ [][(run' = run /\ last'.op = "pop")
             => /\ last'.name = Head(subgraphs).subgraph_name
                /\ last'.pops = Head(subgraphs).pops + 1
                /\ \A i \in 1 .. Len(subgraphs) - 1 : subgraphs'[i] = subgraphs[i + 1]
                /\ IF last'.outcome = "unset"
                   THEN /\ Len(subgraphs') = Len(subgraphs)
                        /\ subgraphs'[Len(subgraphs')].subgraph_name = last'.name
                        /\ subgraphs'[Len(subgraphs')].pops = last'.pops
                   ELSE Len(subgraphs') = Len(subgraphs) - 1]_vars

\* An entity has been put back a second time while entities of another
\* package, each put back once, wait in front of it.
C15_Witness ==
    /\ pc = "drain" /\ last.op = "pop" /\ last.outcome = "unset" /\ last.pops = 2
    /\ Len(subgraphs) >= 3
    /\ \E i \in 1 .. Len(subgraphs) - 1 :
           subgraphs[i].subgraph_name # last.name /\ subgraphs[i].pops = 1

\* ------------------------------------------------------------------ C16
\* A package with no direct dependency and no row.
RowlessLeaf(p) == IsLeaf(p) /\ ~start[p].exists

\* The seed loop has ended in this run.
Seeded == run >= 1 /\ pc \in {"drain", "done", "raised"}

\* C16: for a package with no direct dependency and no row, the seed loop
\* writes nothing and appends no entity, no error is logged for it in the
\* run, and it has no row at any point of the run.
C16_RowlessLeafSkippedSilently ==
    \A p \in Names :
        (run >= 1 /\ RowlessLeaf(p))
            => /\ p \notin written
               /\ ~store[p].exists
               /\ Seeded => EntitiesOf(seeded.subgraphs, p) = 0
               /\ [level |-> "error", name |-> p] \notin log

\* The error of line 158 has been logged for a package with no direct
\* dependency and no row.
C16_ErrorLogged ==
    \E p \in Names : RowlessLeaf(p) /\ [level |-> "error", name |-> p] \in log

\* ------------------------------------------------------------------ C17
\* Tables st and st2 differ at most in the subgraph_size of the row of n.
SameBut(st, st2, n) ==
    \A m \in Names :
        /\ st2[m].exists = st[m].exists
        /\ st2[m].version_count = st[m].version_count
        /\ m # n => st2[m].subgraph_size = st[m].subgraph_size

\* C17: no step of a run adds or removes a row or changes a version_count;
\* an iteration of the seed loop changes at most the subgraph_size of the
\* package it enumerates, a pass of the drain loop at most that of its
\* entity's subject, and a pass that ends at a break (lines 146, 151), at
\* the continue of line 159 or in the TypeError of line 153 changes nothing.
C17_StoreFrame ==
    /\ [][\A m \in Names : /\ store'[m].exists = store[m].exists
                           /\ store'[m].version_count = store[m].version_count]_vars
    /\ [][last'.op = "pile" => store' = store]_vars
    /\ [][(run' = run /\ last'.op = "seed")
             => /\ SameBut(store, store', last'.name)
                /\ last'.outcome # "write" => store' = store]_vars
    /\ [][(run' = run /\ last'.op = "pop")
             => /\ SameBut(store, store', last'.name)
                /\ last'.outcome # "else" => store' = store]_vars

\* A pass has written the product into the row of a package with a
\* dependency while another row is still without a subgraph_size.
C17_Witness ==
    /\ last.op = "pop" /\ last.outcome = "else" /\ last.folds >= 1
    /\ store[last.name].subgraph_size > 1
    /\ start[last.name].subgraph_size = None
    /\ \E m \in Names \ {last.name} : store[m].exists /\ store[m].subgraph_size = None

\* ------------------------------------------------------------------ C18
\* C18: a pass of the drain loop leaves every subgraph_size that is set
\* set, and it assigns the row of a subject with direct dependencies only
\* when, at its end, every one of those dependencies has a row with a
\* subgraph_size.
C18_ScoresWrittenBottomUp ==
    [][(run' = run /\ last'.op = "pop")
          => /\ \A m \in Names :
                    store[m].subgraph_size # None => store'[m].subgraph_size # None
             /\ ((last'.outcome = "else" \/ store' # store) /\ depends_on[last'.name] # {})
                    => \A d \in depends_on[last'.name] :
                           store'[d].exists /\ store'[d].subgraph_size # None]_vars

\* The row of a package with a dependency has been assigned by a pass over
\* an entity that an earlier pass had put back.
C18_Witness ==
    /\ last.op = "pop" /\ last.outcome = "else" /\ last.pops >= 2
    /\ depends_on[last.name] # {}
    /\ start[last.name].subgraph_size = None
    /\ store[last.name].subgraph_size # None
    /\ \E d \in depends_on[last.name] : start[d].subgraph_size = None

=============================================================================
